---- MODULE Spec2Model ----
(***************************************************************************)
(* A model of src/src/polyline.rs of bevy_polyline: the ring-buffered      *)
(* Polyline asset (with_capacity, add_vertex), its GPU preparation         *)
(* (prepare_asset), the DrawPolyline render command, the per-frame         *)
(* extraction system (extract_polylines) and the pipeline key and          *)
(* specialization (PolylinePipelineKey, PolylinePipeline::specialize).     *)
(*                                                                         *)
(* Conventions.                                                            *)
(*  - A Vec<T> of length n is a function over 0..n-1, so that indices are  *)
(*    the indices of the source. vec![x; n] allocates exactly n slots, so  *)
(*    capacity() is the length.                                            *)
(*  - A usize is an integer; a negative integer k stands for 2^64 + k, the *)
(*    value a wrapping subtraction leaves (-1 is usize::MAX). Such a       *)
(*    value is never a valid index.                                        *)
(*  - A u32 key is a function 0..31 -> {0,1}, bit 0 the least significant. *)
(*  - A Vec3 is abstracted to a small natural number, Vec3::ZERO to 0.     *)
(***************************************************************************)
EXTENDS Integers, Sequences, FiniteSets, TLC

VARIABLES
    build,                 \* "debug" (overflow checks on) or "release" (wrapping)
    vertices,              \* Polyline::vertices
    index_ranges,          \* Polyline::index_ranges
    current_vertex_index,  \* Polyline::current_vertex_index
    current_index_index,   \* Polyline::current_index_index
    panic,                 \* "none", or the kind of panic that ended the program
    last,                  \* the latest add_vertex call: its arguments and pre-state
    chain,                 \* shape of the call sequence so far (see ChainAfter)
    render_assets,         \* RenderAssets<Polyline>: handle -> GpuPolyline
    pass,                  \* commands recorded on the TrackedRenderPass by the latest render
    drawn,                 \* the latest DrawPolyline::render: item, asset presence, result
    failed_before,         \* handles for which DrawPolyline has returned Failure
    world,                 \* main world: entity -> components read by extract_polylines
    previous_len,          \* Local<usize> of extract_polylines
    commands,              \* the batch handed to Commands::insert_or_spawn_batch
    extracted,             \* TRUE once extract_polylines has run on the current world
    key,                   \* a PolylinePipelineKey (32 bits)
    key_call,              \* the latest key operation and its argument
    samples_out,           \* result of the latest msaa_samples()
    descriptor             \* result of the latest specialize()

polyline_vars == <<vertices, index_ranges, current_vertex_index, current_index_index>>
render_vars   == <<render_assets, pass, drawn, failed_before>>
extract_vars  == <<world, previous_len, commands, extracted>>
key_vars      == <<key, key_call, samples_out, descriptor>>
vars == <<build, polyline_vars, panic, last, chain, render_vars, extract_vars, key_vars>>

(***************************************************************************)
(* Bounds of the model.                                                    *)
(***************************************************************************)
MaxCapacity == 3      \* capacities passed to with_capacity: 1..MaxCapacity
MaxCoord    == 1      \* vertex values: 0..MaxCoord

Vec3s == 0..MaxCoord
Vec3_ZERO == 0

EmptyMap == [h \in {} |-> 0]
NotDrawn == [item |-> "None", present |-> FALSE, result |-> "none", ranges |-> EmptyMap]

Cap(vec) == Cardinality(DOMAIN vec)
InBounds(i, vec) == i \in DOMAIN vec

IndexRange(s, e) == [start |-> s, end |-> e]

(***************************************************************************)
(* Polyline                                                                *)
(***************************************************************************)
with_capacity(capacity) ==
    [ vertices             |-> [i \in 0..(capacity - 1) |-> Vec3_ZERO],
      index_ranges         |-> [i \in 0..(capacity - 1) |-> IndexRange(0, 0)],
      current_vertex_index |-> 0,
      current_index_index  |-> 0 ]

\* line 99: the connected branch rewrites only the end of the current range
ConnectedRange(range, c) == [range EXCEPT !.end = c + 1]

\* lines 103-104: the disconnected branch starts a new range [c, c + 1)
DisconnectedRangeEmpty(c) == IndexRange(c, c)
DisconnectedRange(c) == IndexRange(c, c + 1)

\* line 101
NextIndexIndex(i, cap) == (i + 1) % cap

\* line 108, as the mathematical value of the expression: % binds tighter
\* than -, so the decrement is applied after the modulo
CursorStepRing(i, cap) == (i + 1) % cap
CursorStep(i, cap) == ((i + 1) % cap) - 1

\* lines 96-105: the new (index_ranges, current_index_index)
UpdateRanges(connected) ==
    IF connected
    THEN [ ranges |-> [index_ranges EXCEPT ![current_index_index] =
                          ConnectedRange(index_ranges[current_index_index],
                                         current_vertex_index)],
           cii    |-> current_index_index ]
    ELSE LET n == NextIndexIndex(current_index_index, Cap(index_ranges))
         IN  [ ranges |-> [index_ranges EXCEPT ![n] =
                              DisconnectedRange(current_vertex_index)],
               cii    |-> n ]

\* the shape of the call sequence: "fresh" before any call; "chain" with k
\* after one add_vertex(_, false) followed by k add_vertex(_, true), while
\* k + 1 <= capacity; "other" after anything else
ChainAfter(connected) ==
    IF chain.form = "fresh" /\ ~connected
    THEN [form |-> "chain", k |-> 0]
    ELSE IF chain.form = "chain" /\ connected /\ chain.k + 2 <= Cap(vertices)
         THEN [form |-> "chain", k |-> chain.k + 1]
         ELSE [form |-> "other", k |-> 0]

CallRecord(vertex, connected) ==
    [ op        |-> "add_vertex",
      vertex    |-> vertex,
      connected |-> connected,
      first     |-> (last.op = "none"),
      cvi       |-> current_vertex_index,
      cii       |-> current_index_index,
      ranges    |-> index_ranges ]

add_vertex(vertex, connected) ==
    /\ panic = "none"
    /\ last' = CallRecord(vertex, connected)
    /\ chain' = ChainAfter(connected)
    /\ UNCHANGED <<build, render_vars, extract_vars, key_vars>>
    /\ IF ~InBounds(current_vertex_index, vertices)
       THEN \* line 94: index out of bounds
            /\ panic' = "index"
            /\ UNCHANGED polyline_vars
       ELSE IF ~InBounds(IF connected THEN current_index_index
                         ELSE NextIndexIndex(current_index_index, Cap(index_ranges)),
                         index_ranges)
       THEN \* line 98 / 102: index out of bounds
            /\ panic' = "index"
            /\ vertices' = [vertices EXCEPT ![current_vertex_index] = vertex]
            /\ current_index_index' =
                 IF connected THEN current_index_index
                 ELSE NextIndexIndex(current_index_index, Cap(index_ranges))
            /\ UNCHANGED <<index_ranges, current_vertex_index>>
       ELSE LET upd  == UpdateRanges(connected)
                next == CursorStep(current_vertex_index, Cap(vertices))
            IN  /\ vertices' = [vertices EXCEPT ![current_vertex_index] = vertex]
                /\ index_ranges' = upd.ranges
                /\ current_index_index' = upd.cii
                /\ IF next < 0 /\ build = "debug"
                   THEN \* line 108: attempt to subtract with overflow
                        /\ panic' = "overflow"
                        /\ UNCHANGED current_vertex_index
                   ELSE \* in release the subtraction wraps to usize::MAX
                        /\ panic' = "none"
                        /\ current_vertex_index' = next

AddVertex == \E vertex \in Vec3s, connected \in BOOLEAN : add_vertex(vertex, connected)

(***************************************************************************)
(* GpuPolyline, prepare_asset, DrawPolyline                                *)
(***************************************************************************)
\* "polyline" is the handle of the modelled asset; "unloaded" is a handle
\* whose asset is never prepared
Handles == {"polyline", "unloaded"}
ItemHandles == Handles \cup {"None"}     \* pl_handle: Option<&Handle<Polyline>>

prepare_asset ==
    [ vertex_buffer |-> vertices,        \* cast_slice + create_buffer_with_data
      index_ranges  |-> index_ranges ]   \* clone

PrepareAsset ==
    /\ panic = "none"
    /\ render_assets' = [h \in DOMAIN render_assets \cup {"polyline"} |->
                            IF h = "polyline" THEN prepare_asset ELSE render_assets[h]]
    /\ UNCHANGED <<build, polyline_vars, panic, last, chain, pass, drawn,
                   failed_before, extract_vars, key_vars>>

SetVertexBuffer(slot, buffer) ==
    [cmd |-> "set_vertex_buffer", slot |-> slot, buffer |-> buffer,
     vertex_range |-> <<0, 0>>, instance_range |-> <<0, 0>>]
Draw(vs, ve, is, ie) ==
    [cmd |-> "draw", slot |-> 0, buffer |-> <<>>,
     vertex_range |-> <<vs, ve>>, instance_range |-> <<is, ie>>]

\* line 470
RangeIsDrawn(range) == range.start # 0 /\ range.end # 0

\* lines 469-473: the draws of ranges[i..], in order
RECURSIVE DrawsFrom(_, _)
DrawsFrom(ranges, i) ==
    IF i >= Cap(ranges) THEN <<>>
    ELSE (IF RangeIsDrawn(ranges[i])
          THEN <<Draw(0, 6, ranges[i].start, ranges[i].end)>>
          ELSE <<>>) \o DrawsFrom(ranges, i + 1)

\* line 468
VertexBufferSlot == 0

RenderResultAlwaysSuccess(present) == "Success"
RenderResult(present) == IF present THEN "Success" ELSE "Failure"

render(pl_handle) ==
    /\ panic = "none"
    /\ UNCHANGED <<build, polyline_vars, last, chain, render_assets,
                   extract_vars, key_vars>>
    /\ IF pl_handle = "None"
       THEN \* line 467: unwrap on None
            /\ panic' = "unwrap"
            /\ UNCHANGED <<pass, drawn, failed_before>>
       ELSE LET present == pl_handle \in DOMAIN render_assets
                res     == RenderResult(present)
            IN  /\ panic' = "none"
                /\ pass' = IF present
                           THEN <<SetVertexBuffer(VertexBufferSlot,
                                     render_assets[pl_handle].vertex_buffer)>>
                                \o DrawsFrom(render_assets[pl_handle].index_ranges, 0)
                           ELSE <<>>
                /\ drawn' = [item |-> pl_handle, present |-> present, result |-> res,
                             ranges |-> IF present
                                        THEN render_assets[pl_handle].index_ranges
                                        ELSE EmptyMap]
                /\ failed_before' = IF res = "Failure"
                                    THEN failed_before \cup {pl_handle}
                                    ELSE failed_before

DrawPolyline == \E pl_handle \in ItemHandles : render(pl_handle)

(***************************************************************************)
(* Initial values of the parts a specification does not use                *)
(***************************************************************************)

PolylineIdle ==
    /\ build = "debug"
    /\ vertices = EmptyMap
    /\ index_ranges = EmptyMap
    /\ current_vertex_index = 0
    /\ current_index_index = 0
    /\ panic = "none"
    /\ last = [op |-> "none"]
    /\ chain = [form |-> "fresh", k |-> 0]
    /\ render_assets = EmptyMap
    /\ pass = <<>>
    /\ drawn = NotDrawn
    /\ failed_before = {}

ExtractIdle ==
    /\ world = EmptyMap
    /\ previous_len = 0
    /\ commands = <<>>
    /\ extracted = FALSE

KeyIdle ==
    /\ key = [i \in 0..31 |-> 0]
    /\ key_call = [op |-> "none", arg |-> 0]
    /\ samples_out = 0
    /\ descriptor = [label |-> "none"]

(***************************************************************************)
(* Properties of add_vertex                                                *)
(***************************************************************************)
Returned == last.op = "add_vertex" /\ panic = "none"

\* C1: every add_vertex call that returns moves the vertex cursor to the next
\* slot of the ring: current_vertex_index = (its value before + 1) mod capacity.
C1_CursorAdvances ==
    Returned => current_vertex_index = (last.cvi + 1) % Cap(vertices)

\* C2: add_vertex(v, true) on a polyline that already received a vertex keeps
\* current_index_index and makes the end of the current range one greater than
\* before (modulo ring wrap); and after one add_vertex(_, false) and k
\* add_vertex(_, true), k + 1 <= capacity, index_ranges[1] is (0, k + 1) and
\* every other range is (0, 0).
C2_ConnectedAppendExtends ==
    /\ (Returned /\ last.connected /\ ~last.first) =>
          /\ current_index_index = last.cii
          /\ index_ranges[current_index_index].end =
                (last.ranges[last.cii].end % Cap(vertices)) + 1
    /\ (Returned /\ chain.form = "chain" /\ Cap(index_ranges) >= 2) =>
          \A i \in DOMAIN index_ranges :
              index_ranges[i] = IF i = 1 THEN IndexRange(0, chain.k + 1)
                                ELSE IndexRange(0, 0)

\* C4: no sequence of add_vertex calls on a polyline of capacity >= 1 ends in
\* a runtime error (an index out of bounds or an arithmetic overflow).
C4_NoRuntimeError == panic \notin {"index", "overflow"}

\* C5: every range (s, e) other than (0, 0) satisfies s < e <= capacity.
C5_RangesWellFormed ==
    \A i \in DOMAIN index_ranges :
        index_ranges[i] # IndexRange(0, 0) =>
            /\ index_ranges[i].start < index_ranges[i].end
            /\ index_ranges[i].end <= Cap(vertices)

\* C5 witness: several calls have been made and a range is in use.
C5_Witness ==
    /\ Returned /\ ~last.first
    /\ \E i \in DOMAIN index_ranges : index_ranges[i] # IndexRange(0, 0)
    /\ \E i \in DOMAIN index_ranges : index_ranges[i] = IndexRange(0, 0)

\* C6: an add_vertex(v, false) call that gets past the vertex write sets
\* current_index_index to (its old value + 1) mod capacity(index_ranges), sets
\* the range there to [c, c + 1) with c the cursor before the call, and
\* modifies no other range.
C6_DisconnectedAppendCreates ==
    (last.op = "add_vertex" /\ ~last.connected /\ panic # "index") =>
        /\ current_index_index = (last.cii + 1) % Cap(index_ranges)
        /\ index_ranges[current_index_index] = IndexRange(last.cvi, last.cvi + 1)
        /\ \A j \in DOMAIN index_ranges \ {current_index_index} :
               index_ranges[j] = last.ranges[j]

\* C6 witness: a disconnected append that wrapped current_index_index to 0
\* and overwrote a range that was in use.
C6_Witness ==
    /\ Returned /\ ~last.connected
    /\ Cap(index_ranges) >= 2
    /\ last.cii = Cap(index_ranges) - 1
    /\ current_index_index = 0
    /\ last.ranges[0] # IndexRange(0, 0)

(***************************************************************************)
(* Properties of DrawPolyline                                              *)
(***************************************************************************)
RECURSIVE ExpectedDrawsFrom(_, _)
ExpectedDrawsFrom(ranges, i) ==
    IF i >= Cap(ranges) THEN <<>>
    ELSE (IF ranges[i] # IndexRange(0, 0)
          THEN <<Draw(0, 6, ranges[i].start, ranges[i].end)>>
          ELSE <<>>) \o ExpectedDrawsFrom(ranges, i + 1)

\* C3: given a prepared GpuPolyline, DrawPolyline issues exactly one draw per
\* range other than (0, 0), in order, with vertex range 0..6 and instance
\* range start..end, and no draw for a range equal to (0, 0).
C3_DrawsEveryUsedRange ==
    drawn.result = "Success" =>
        /\ Len(pass) >= 1
        /\ Tail(pass) = ExpectedDrawsFrom(drawn.ranges, 0)

\* C7: each invocation of DrawPolyline is decided by the asset map alone: with
\* no GpuPolyline for the handle it returns Failure, binds nothing and draws
\* nothing; with one it binds the vertex buffer at slot 0 and returns
\* Success, whatever earlier invocations returned.
C7_DrawDecidedByAssetMap ==
    drawn.result # "none" =>
        /\ ~drawn.present =>
              /\ drawn.result = "Failure"
              /\ pass = <<>>
        /\ drawn.present =>
              /\ drawn.result = "Success"
              /\ drawn.item \in DOMAIN render_assets
              /\ Len(pass) >= 1
              /\ pass[1].cmd = "set_vertex_buffer"
              /\ pass[1].slot = 0
              /\ \A i \in 2..Len(pass) : pass[i].cmd = "draw"

\* C7 witness: a draw succeeded for a handle whose draw had failed before.
C7_Witness ==
    /\ drawn.result = "Success"
    /\ drawn.item \in failed_before

(***************************************************************************)
(* extract_polylines                                                       *)
(***************************************************************************)
MaxEntities == 3      \* entities of the main world: 1..MaxEntities

Entities == 1..MaxEntities

\* an entity's components: queried is TRUE when it has every component of the
\* query (lines 157-165), so that the query yields it
Components == [queried : BOOLEAN, inherited_visibility : BOOLEAN,
               view_visibility : BOOLEAN]

\* the GlobalTransform and Handle<Polyline> of an entity
TransformOf(e) == e % (MaxCoord + 1)
HandleOf(e) == "polyline"

compute_matrix(transform) == <<"Mat4", transform>>
clone_weak(handle) == [weak |-> TRUE, id |-> handle]
PolylineUniform(transform) == [transform |-> transform]

\* line 169
IsSkippedWhenBothFalse(inherited, view) == ~inherited /\ ~view
IsSkipped(inherited, view) == ~inherited \/ ~view

\* lines 172-182
BatchEntry(e) ==
    <<e, <<clone_weak(HandleOf(e)),
           PolylineUniform(compute_matrix(TransformOf(e)))>>>>

\* lines 167-183: the loop over query.iter(), entities e..MaxEntities
RECURSIVE ExtractFrom(_)
ExtractFrom(e) ==
    IF e > MaxEntities THEN <<>>
    ELSE (IF ~world[e].queried
             \/ IsSkipped(world[e].inherited_visibility, world[e].view_visibility)
          THEN <<>>
          ELSE <<BatchEntry(e)>>) \o ExtractFrom(e + 1)

extract_polylines ==
    /\ ~extracted
    /\ LET values == ExtractFrom(1)
       IN  /\ previous_len' = Len(values)
           /\ commands' = values
    /\ extracted' = TRUE
    /\ UNCHANGED <<build, polyline_vars, panic, last, chain, render_vars, world, key_vars>>

\* the main world between two frames: the application changes an entity's
\* components, and the commands of the previous frame have been applied
WorldChange ==
    \E e \in Entities, c \in Components :
        /\ world[e] # c
        /\ world' = [world EXCEPT ![e] = c]
        /\ commands' = <<>>
        /\ extracted' = FALSE
        /\ UNCHANGED <<build, polyline_vars, panic, last, chain, render_vars,
                       previous_len, key_vars>>

\* C10: the batch of extract_polylines holds exactly the queried entities
\* whose InheritedVisibility and ViewVisibility are both true, one entry each
\* under the entity's own id, and previous_len is the size of the batch.
C10_ExtractsExactlyVisible ==
    extracted =>
        LET visible == {e \in Entities : /\ world[e].queried
                                         /\ world[e].inherited_visibility
                                         /\ world[e].view_visibility}
        IN  /\ {commands[i][1] : i \in 1..Len(commands)} = visible
            /\ Len(commands) = Cardinality(visible)
            /\ previous_len = Len(commands)
            /\ \A i \in 1..Len(commands) :
                   commands[i][2][1].id = HandleOf(commands[i][1])

\* C10 witness: a frame that extracted an entity and left out one entity for
\* each visibility flag being the only false one.
C10_Witness ==
    /\ extracted
    /\ Len(commands) >= 1
    /\ \E e \in Entities : /\ world[e].queried
                           /\ world[e].inherited_visibility
                           /\ ~world[e].view_visibility
    /\ \E e \in Entities : /\ world[e].queried
                           /\ ~world[e].inherited_visibility
                           /\ world[e].view_visibility

InitExtract ==
    /\ PolylineIdle
    /\ KeyIdle
    /\ world \in [Entities -> Components]
    /\ previous_len = 0
    /\ commands = <<>>
    /\ extracted = FALSE

NextExtract == extract_polylines \/ WorldChange

SpecExtract == InitExtract /\ [][NextExtract]_vars

(***************************************************************************)
(* PolylinePipelineKey                                                     *)
(***************************************************************************)

\* the u32 of a natural number below 2^31
ToBits(n) == [i \in 0..31 |-> IF i >= 31 THEN 0 ELSE (n \div (2 ^ i)) % 2]

\* the natural number of a u32 whose bit 31 is clear
RECURSIVE SumBits(_, _)
SumBits(b, i) == IF i > 30 THEN 0 ELSE b[i] * (2 ^ i) + SumBits(b, i + 1)
FromBits(b) == SumBits(b, 0)

BitAnd(a, b) == [i \in 0..31 |-> a[i] * b[i]]
Shl(a, s)    == [i \in 0..31 |-> IF i >= s THEN a[i - s] ELSE 0]
Shr(a, s)    == [i \in 0..31 |-> IF i + s <= 31 THEN a[i + s] ELSE 0]
count_ones(a) == Cardinality({i \in 0..31 : a[i] = 1})
trailing_zeros(a) ==
    IF \A i \in 0..31 : a[i] = 0 THEN 32
    ELSE CHOOSE z \in 0..31 : a[z] = 1 /\ \A i \in 0..(z - 1) : a[i] = 0

\* lines 347-351
NONE == ToBits(0)
PERSPECTIVE == Shl(ToBits(1), 0)
TRANSPARENT_MAIN_PASS == Shl(ToBits(1), 1)
HDR == Shl(ToBits(1), 2)

\* lines 356-357
MSAA_MASK_BITS == ToBits(7)
MSAA_SHIFT_BITS == 32 - count_ones(MSAA_MASK_BITS)
MSAA_RESERVED_BITS == Shl(MSAA_MASK_BITS, MSAA_SHIFT_BITS)

\* bitflags: Flags::contains
contains(k, flag) == BitAnd(k, flag) = flag

\* lines 359-363
from_msaa_samples_shifted_less(msaa_samples) ==
    Shl(BitAnd(ToBits(trailing_zeros(ToBits(msaa_samples))), MSAA_MASK_BITS),
        MSAA_SHIFT_BITS - 1)
from_msaa_samples(msaa_samples) ==
    Shl(BitAnd(ToBits(trailing_zeros(ToBits(msaa_samples))), MSAA_MASK_BITS),
        MSAA_SHIFT_BITS)

\* lines 365-367
msaa_samples(k) ==
    FromBits(Shl(ToBits(1), FromBits(BitAnd(Shr(k, MSAA_SHIFT_BITS), MSAA_MASK_BITS))))

\* lines 369-375
from_hdr(hdr) == IF hdr THEN HDR ELSE NONE

(***************************************************************************)
(* PolylinePipeline::specialize                                            *)
(***************************************************************************)
\* lines 256-276: (label, blend, depth_write_enabled)
PassVariantPerspectiveFirst(k) ==
    IF contains(k, PERSPECTIVE)
    THEN [label |-> "transparent_polyline_pipeline", blend |-> "ALPHA_BLENDING",
          depth_write_enabled |-> TRUE]
    ELSE IF contains(k, TRANSPARENT_MAIN_PASS)
    THEN [label |-> "transparent_polyline_pipeline", blend |-> "ALPHA_BLENDING",
          depth_write_enabled |-> FALSE]
    ELSE [label |-> "opaque_polyline_pipeline", blend |-> "REPLACE",
          depth_write_enabled |-> TRUE]
PassVariant(k) ==
    IF contains(k, TRANSPARENT_MAIN_PASS)
    THEN [label |-> "transparent_polyline_pipeline", blend |-> "ALPHA_BLENDING",
          depth_write_enabled |-> FALSE]
    ELSE IF contains(k, PERSPECTIVE)
    THEN [label |-> "transparent_polyline_pipeline", blend |-> "ALPHA_BLENDING",
          depth_write_enabled |-> TRUE]
    ELSE [label |-> "opaque_polyline_pipeline", blend |-> "REPLACE",
          depth_write_enabled |-> TRUE]

\* lines 278-281
TargetFormat(k) ==
    IF contains(k, HDR) THEN "ViewTarget::TEXTURE_FORMAT_HDR"
    ELSE "TextureFormat::bevy_default()"

\* lines 283-337
specialize(k) ==
    LET v == PassVariant(k)
    IN  [ label               |-> v.label,
          blend               |-> v.blend,
          depth_write_enabled |-> v.depth_write_enabled,
          format              |-> TargetFormat(k),
          count               |-> msaa_samples(k),
          step_mode           |-> "Instance",
          topology            |-> "TriangleList",
          depth_format        |-> "Depth32Float",
          depth_compare       |-> "Greater" ]

\* the keys of the model: any combination of the three flags and of the three
\* MSAA bits (from_bits_retain keeps every bit)
KeyBits == {0, 1, 2, 29, 30, 31}
Keys == {[i \in 0..31 |-> IF i \in S THEN 1 ELSE 0] : S \in SUBSET KeyBits}

\* the sample counts passed to from_msaa_samples: the powers of two up to
\* 128, and counts the key cannot hold
SampleCounts == {1, 2, 4, 8, 16, 32, 64, 128}
SampleInputs == SampleCounts \cup {0, 3, 6, 256}

NoDescriptor == [label |-> "none"]

FromMsaaSamples ==
    \E n \in SampleInputs :
        /\ key' = from_msaa_samples(n)
        /\ key_call' = [op |-> "from_msaa_samples", arg |-> n]
        /\ samples_out' = 0
        /\ descriptor' = NoDescriptor
        /\ UNCHANGED <<build, polyline_vars, panic, last, chain, render_vars, extract_vars>>

FromHdr ==
    \E hdr \in BOOLEAN :
        /\ key' = from_hdr(hdr)
        /\ key_call' = [op |-> "from_hdr", arg |-> IF hdr THEN 1 ELSE 0]
        /\ samples_out' = 0
        /\ descriptor' = NoDescriptor
        /\ UNCHANGED <<build, polyline_vars, panic, last, chain, render_vars, extract_vars>>

MsaaSamples ==
    /\ samples_out = 0
    /\ samples_out' = msaa_samples(key)
    /\ UNCHANGED <<build, polyline_vars, panic, last, chain, render_vars, extract_vars,
                   key, key_call, descriptor>>

Specialize ==
    /\ descriptor = NoDescriptor
    /\ descriptor' = specialize(key)
    /\ UNCHANGED <<build, polyline_vars, panic, last, chain, render_vars, extract_vars,
                   key, key_call, samples_out>>

\* C8: for every sample count n in {1, 2, 4, ..., 128},
\* from_msaa_samples(n).msaa_samples() = n, and the key holds log2(n) in its
\* top 3 bits (shift 29, mask 0b111) and nothing else.
C8_MsaaRoundTrip ==
    (key_call.op = "from_msaa_samples" /\ key_call.arg \in SampleCounts) =>
        LET log2 == CHOOSE e \in 0..7 : 2 ^ e = key_call.arg
        IN  /\ \A i \in 0..31 :
                  key[i] = IF i >= 29 THEN (log2 \div (2 ^ (i - 29))) % 2 ELSE 0
            /\ samples_out # 0 => samples_out = key_call.arg

\* C8 witness: the largest sample count has made the round trip.
C8_Witness ==
    /\ key_call.op = "from_msaa_samples"
    /\ key_call.arg = 128
    /\ samples_out = 128

\* C9: specialize(key) chooses (label, blend, depth write) by priority:
\* TRANSPARENT_MAIN_PASS, then PERSPECTIVE, then opaque; the colour format is
\* the HDR format iff the key contains HDR; the multisample count is
\* key.msaa_samples(); nothing but the key decides the result.
C9_SpecializeByPriority ==
    descriptor # NoDescriptor =>
        /\ key[1] = 1 =>
              /\ descriptor.label = "transparent_polyline_pipeline"
              /\ descriptor.blend = "ALPHA_BLENDING"
              /\ descriptor.depth_write_enabled = FALSE
        /\ (key[1] = 0 /\ key[0] = 1) =>
              /\ descriptor.label = "transparent_polyline_pipeline"
              /\ descriptor.blend = "ALPHA_BLENDING"
              /\ descriptor.depth_write_enabled = TRUE
        /\ (key[1] = 0 /\ key[0] = 0) =>
              /\ descriptor.label = "opaque_polyline_pipeline"
              /\ descriptor.blend = "REPLACE"
              /\ descriptor.depth_write_enabled = TRUE
        /\ (descriptor.format = "ViewTarget::TEXTURE_FORMAT_HDR") = (key[2] = 1)
        /\ descriptor.format \in {"ViewTarget::TEXTURE_FORMAT_HDR",
                                  "TextureFormat::bevy_default()"}
        /\ descriptor.count = 2 ^ (key[29] + 2 * key[30] + 4 * key[31])

\* C9 witness: a key with both TRANSPARENT_MAIN_PASS and PERSPECTIVE, HDR and
\* a sample count above 1 has been specialized.
C9_Witness ==
    /\ descriptor # NoDescriptor
    /\ key[0] = 1 /\ key[1] = 1 /\ key[2] = 1
    /\ descriptor.count = 4

InitKey ==
    /\ PolylineIdle
    /\ ExtractIdle
    /\ key \in Keys
    /\ key_call = [op |-> "from_bits_retain", arg |-> 0]
    /\ samples_out = 0
    /\ descriptor = NoDescriptor

NextKey == FromMsaaSamples \/ FromHdr \/ MsaaSamples \/ Specialize

SpecKey == InitKey /\ [][NextKey]_vars

(***************************************************************************)
(* Spec: a polyline built by with_capacity and add_vertex, prepared and    *)
(* drawn.                                                                  *)
(***************************************************************************)
Init ==
    /\ build \in {"debug", "release"}
    /\ \E capacity \in 1..MaxCapacity :
         LET p == with_capacity(capacity)
         IN  /\ vertices = p.vertices
             /\ index_ranges = p.index_ranges
             /\ current_vertex_index = p.current_vertex_index
             /\ current_index_index = p.current_index_index
    /\ panic = "none"
    /\ last = [op |-> "none"]
    /\ chain = [form |-> "fresh", k |-> 0]
    /\ render_assets = EmptyMap
    /\ pass = <<>>
    /\ drawn = NotDrawn
    /\ failed_before = {}
    /\ ExtractIdle
    /\ KeyIdle

Next == AddVertex \/ PrepareAsset \/ DrawPolyline

Spec == Init /\ [][Next]_vars

====
